---- MODULE Spec2Model ----
(***************************************************************************)
(* THC staking program (programs/thc-staking/src/lib.rs).                  *)
(*                                                                         *)
(* State: the StakingAuthority singleton, one StakeAccount slot per owner  *)
(* (the PDA derived from the owner's key), the SPL token accounts and the  *)
(* cluster clock.  One action per instruction; an instruction that returns *)
(* an error or panics leaves every account as it was (the runtime discards *)
(* the writes of a failed transaction).                                    *)
(***************************************************************************)
EXTENDS Integers, Sequences, FiniteSets, TLC

\* ---------------------------------------------------------------- bounds
DaySecs == 86400
MaxDays == 250
WordBits == 11

Users == {"alice", "bob"}
\* who submits initialize, and the rewards pools it is offered
Deployers == {"alice"}
InitRewardsPools == {"reserve", "bob_ta"}
PDA == "staking_authority"
TokenAccountKeys == {"alice_ta", "bob_ta", "vault", "reserve"}
\* accounts a caller passes as its own token account, and as vault / rewards pool
OwnerAccountArgs == {"alice_ta", "bob_ta"}
CustodyAccountArgs == {"vault", "reserve", "bob_ta"}
Amounts == {0, 73, 100}
LockDays == {200}
TimeSteps == {125 * DaySecs}
MaxNow == MaxDays * DaySecs

\* ------------------------------------------- f64 arithmetic (IEEE-754)
\* A non-negative double is [m, e]: a significand m of at most 53 bits, held
\* as a little-endian sequence of 12-bit limbs, and the value m * 2^e.
Base == 4096
LimbBits == 12
MantBits == 53
Limbs == Seq(Nat)
Doubles == [m : Limbs, e : Int]

Pow2[n \in Nat] == IF n = 0 THEN 1 ELSE 2 * Pow2[n - 1]

BigStrip[s \in Limbs] ==
    IF s = <<>> THEN s
    ELSE IF s[Len(s)] = 0 THEN BigStrip[SubSeq(s, 1, Len(s) - 1)] ELSE s

BigFromInt[n \in Nat] == IF n = 0 THEN <<>> ELSE <<n % Base>> \o BigFromInt[n \div Base]

BigToInt[a \in Limbs] == IF a = <<>> THEN 0 ELSE a[1] + Base * BigToInt[Tail(a)]

\* carry propagation: limbs of any size, plus c, to limbs below Base
BigCarry[s \in Limbs, c \in Nat] ==
    IF s = <<>> THEN BigFromInt[c]
    ELSE <<(s[1] + c) % Base>> \o BigCarry[Tail(s), (s[1] + c) \div Base]

SumProd[a \in Limbs, b \in Limbs, k \in Nat, i \in Nat] ==
    IF i > Len(a) \/ i > k THEN 0
    ELSE a[i] * b[k + 1 - i] + SumProd[a, b, k, i + 1]

BigMul[a \in Limbs, b \in Limbs] ==
    IF a = <<>> \/ b = <<>> THEN <<>>
    ELSE BigStrip[BigCarry[[k \in 1..(Len(a) + Len(b) - 1) |->
            SumProd[a, b, k, IF k > Len(b) THEN k + 1 - Len(b) ELSE 1]], 0]]

\* long division by a small d, from limb i down: quotient limbs q, remainder r
DivLimbs[a \in Limbs, d \in Nat, i \in Nat, r \in Nat, q \in Limbs] ==
    IF i = 0 THEN [q |-> q, r |-> r]
    ELSE DivLimbs[a, d, i - 1, (r * Base + a[i]) % d, <<(r * Base + a[i]) \div d>> \o q]

BigDivRem[a \in Limbs, d \in Nat] == DivLimbs[a, d, Len(a), 0, <<>>]

BigDiv[a \in Limbs, d \in Nat] == BigStrip[BigDivRem[a, d].q]

TopBits[n \in Nat] == IF n = 0 THEN 0 ELSE 1 + TopBits[n \div 2]

BigBitLen[a \in Limbs] ==
    IF a = <<>> THEN 0 ELSE (Len(a) - 1) * LimbBits + TopBits[a[Len(a)]]

BigShl[a \in Limbs, n \in Nat] ==
    IF a = <<>> THEN <<>>
    ELSE [i \in 1..(n \div LimbBits) |-> 0] \o
         BigCarry[[i \in 1..Len(a) |-> a[i] * Pow2[n % LimbBits]], 0]

BigShr[a \in Limbs, n \in Nat] ==
    IF n \div LimbBits >= Len(a) THEN <<>>
    ELSE BigDiv[SubSeq(a, n \div LimbBits + 1, Len(a)), Pow2[n % LimbBits]]

BigOdd[a \in Limbs] == a # <<>> /\ a[1] % 2 = 1

\* a significand that reached 54 bits by rounding up is 2^53: halve it
FNormal[q \in Limbs, e \in Int] ==
    IF BigBitLen[q] > MantBits THEN [m |-> BigShr[q, 1], e |-> e + 1]
    ELSE [m |-> q, e |-> e]

\* q2 holds 54 bits, the last one the half bit; sticky says that nonzero bits
\* lie below it: round to nearest, ties to even
FRoundHalf[q2 \in Limbs, e \in Int, sticky \in BOOLEAN] ==
    FNormal[IF BigOdd[q2] /\ (sticky \/ BigOdd[BigShr[q2, 1]])
            THEN BigStrip[BigCarry[BigShr[q2, 1], 1]]
            ELSE BigShr[q2, 1],
            e + 1]

\* the double nearest to n * 2^e (plus a nonzero tail below it when sticky)
FRound[n \in Limbs, e \in Int, sticky \in BOOLEAN] ==
    IF n = <<>> THEN [m |-> <<>>, e |-> 0]
    ELSE IF BigBitLen[n] <= MantBits
         THEN [m |-> BigShl[n, MantBits - BigBitLen[n]], e |-> e - (MantBits - BigBitLen[n])]
    ELSE FRoundHalf[BigShr[n, BigBitLen[n] - MantBits - 1],
                    e + BigBitLen[n] - MantBits - 1,
                    sticky \/ BigShl[BigShr[n, BigBitLen[n] - MantBits - 1],
                                     BigBitLen[n] - MantBits - 1] # n]

FFromInt[n \in Nat] == FRound[BigFromInt[n], 0, FALSE]

FMul[x \in Doubles, y \in Doubles] == FRound[BigMul[x.m, y.m], x.e + y.e, FALSE]

LowZeros[n \in Nat] == IF n % 2 = 1 THEN 0 ELSE 1 + LowZeros[n \div 2]

BigLowZeros[a \in Limbs] ==
    IF a[1] = 0 THEN LimbBits + BigLowZeros[Tail(a)] ELSE LowZeros[a[1]]

\* x / (odd * 2^sh) for odd below 2^18: long division of x.m extended by
\* GuardBits zero bits, the remainder feeding the sticky bit
GuardBits == 72
FDivOdd[x \in Doubles, odd \in Nat, sh \in Int] ==
    FRound[BigStrip[BigDivRem[BigShl[x.m, GuardBits], odd].q],
           x.e - GuardBits - sh,
           BigDivRem[BigShl[x.m, GuardBits], odd].r # 0]

\* x / y, correctly rounded, for a divisor whose odd part is below 2^18
\* (100.0 and 365.0 * 86400.0 are)
FDiv[x \in Doubles, y \in Doubles] ==
    IF x.m = <<>> THEN x
    ELSE FDivOdd[x, BigToInt[BigShr[y.m, BigLowZeros[y.m]]], y.e + BigLowZeros[y.m]]

\* `as u64` of a non-negative double: truncation toward zero
FTrunc[x \in Doubles] ==
    IF x.m = <<>> THEN 0
    ELSE IF x.e >= 0 THEN BigToInt[BigShl[x.m, x.e]]
    ELSE BigToInt[BigShr[x.m, 0 - x.e]]

\* --------------------------------------------------------- pure helpers
\* u64 range of the aggregates and balances, scaled to WordBits bits
MaxU64 == Pow2[WordBits] - 1

calculate_apy(lock_period_days) ==
    IF lock_period_days >= 365 THEN 15
    ELSE IF lock_period_days >= 180 THEN 12
    ELSE IF lock_period_days >= 90 THEN 8
    ELSE 5

\* (amount as f64 * (apy as f64 / 100.0) * time_in_years) as u64
gross_rewards(amount, apy, time_diff) ==
    LET time_in_years == FDiv[FFromInt[time_diff], FMul[FFromInt[365], FFromInt[DaySecs]]]
        rate          == FDiv[FFromInt[apy], FFromInt[100]]
    IN FTrunc[FMul[FMul[FFromInt[amount], rate], time_in_years]]

calculate_rewards(amount, apy, start_time, current_time, already_claimed) ==
    LET time_diff == current_time - start_time
        rewards   == gross_rewards(amount, apy, time_diff)
    IN IF time_diff <= 0 THEN 0
       ELSE IF rewards >= already_claimed THEN rewards - already_claimed
       ELSE 0

\* The same computation on amounts of the full u64 range, which are held as
\* limbs.  `as f64` of a u64 rounds to the nearest double; `as u64` of a double
\* truncates and saturates at u64::MAX.
U64Max == <<4095, 4095, 4095, 4095, 4095, 15>>

FFromU64[a \in Limbs] == FRound[a, 0, FALSE]

FToU64[x \in Doubles] ==
    IF x.m = <<>> THEN <<>>
    ELSE IF x.e >= 0
         THEN (IF BigBitLen[x.m] + x.e > 64 THEN U64Max ELSE BigShl[x.m, x.e])
    ELSE BigShr[x.m, 0 - x.e]

\* calculate_rewards(amount, apy, start_time, current_time, 0) for a u64 amount
calculate_rewards_u64(amount, apy, start_time, current_time) ==
    LET time_diff     == current_time - start_time
        time_in_years == FDiv[FFromInt[time_diff], FMul[FFromInt[365], FFromInt[DaySecs]]]
        rate          == FDiv[FFromInt[apy], FFromInt[100]]
    IN IF time_diff <= 0 THEN <<>>
       ELSE FToU64[FMul[FMul[FFromU64[amount], rate], time_in_years]]

\* faulty variant: an addition that is not checked
checked_add_never_none(a, b) == FALSE

\* u64::checked_add(a, b) is None: the sum does not fit
checked_add_is_none(a, b) == a + b > MaxU64

\* u64::checked_sub(a, b) is None: the difference is negative
checked_sub_is_none(a, b) == a < b

\* ----------------------------------------------------------------- state
VARIABLES
    clock,              \* Clock::get()?.unix_timestamp
    staking_authority,  \* the StakingAuthority account, or NoAccount
    stake_accounts,     \* owner key -> the StakeAccount at that owner's PDA, or NoAccount
    token_accounts,     \* SPL token account key -> [owner, amount]
    lastResult          \* outcome of the last instruction

vars == <<clock, staking_authority, stake_accounts, token_accounts, lastResult>>
accounts == <<staking_authority, stake_accounts, token_accounts>>

NoAccount == [exists |-> FALSE]

InitialTokenAccounts ==
    [k \in TokenAccountKeys |->
        CASE k = "alice_ta" -> [owner |-> "alice", amount |-> 73]
          [] k = "bob_ta"   -> [owner |-> "bob",   amount |-> 73]
          [] k = "vault"    -> [owner |-> PDA,     amount |-> 0]
          [] k = "reserve"  -> [owner |-> PDA,     amount |-> 5]]

\* principal: the principal whose transfer went through; rewards: the rewards paid
Result(op, err, principal, rewards) ==
    [op |-> op, err |-> err, principal |-> principal, rewards |-> rewards]

Init ==
    /\ clock = 0
    /\ staking_authority = NoAccount
    /\ stake_accounts = [u \in Users |-> NoAccount]
    /\ token_accounts = InitialTokenAccounts
    /\ lastResult = Result("none", "Ok", 0, 0)

\* An instruction's outcome: the error (or "Ok") and the account contents it leaves.
Outcome(err, sa, accts, toks, principal, rewards) ==
    [err |-> err, staking_authority |-> sa, stake_accounts |-> accts,
     token_accounts |-> toks, principal |-> principal, rewards |-> rewards]

\* faulty variant: a failed instruction keeps the transfers already made
AbortKeepingTransfers(toks, err, principal, rewards) ==
    Outcome(err, staking_authority, stake_accounts, toks, principal, rewards)

\* An Err return (`?`, require!) or a panic (unwrap) fails the transaction: the
\* runtime discards every write, the token transfers already made (toks) included.
Abort(toks, err, principal, rewards) ==
    Outcome(err, staking_authority, stake_accounts, token_accounts, principal, rewards)

Commit(op, out) ==
    /\ staking_authority' = out.staking_authority
    /\ stake_accounts' = out.stake_accounts
    /\ token_accounts' = out.token_accounts
    /\ lastResult' = Result(op, out.err, out.principal, out.rewards)
    /\ UNCHANGED clock

\* faulty variant: a transfer that credits `to` and leaves `from` as it is
token_transfer_credit_only(toks, from, to, amount) ==
    [ok |-> TRUE, toks |-> [toks EXCEPT ![to].amount = @ + amount]]

\* token::transfer: debit `from`, credit `to`; fails when `from` holds less
token_transfer(toks, from, to, amount) ==
    IF toks[from].amount < amount THEN [ok |-> FALSE, toks |-> toks]
    ELSE IF from = to THEN [ok |-> TRUE, toks |-> toks]
    ELSE [ok |-> TRUE,
          toks |-> [toks EXCEPT ![from].amount = @ - amount, ![to].amount = @ + amount]]

\* ------------------------------------------------------------ initialize
\* faulty variant: the authority account is not `init`, it may exist already
InitializeAccountsNoInit(authority, rewards_pool) ==
    IF token_accounts[rewards_pool].owner # PDA THEN "ConstraintRaw" ELSE "Ok"

\* #[derive(Accounts)] Initialize: the checks Anchor runs before the handler
InitializeAccounts(authority, rewards_pool) ==
    IF staking_authority.exists THEN "AccountAlreadyInUse"
    ELSE IF token_accounts[rewards_pool].owner # PDA THEN "ConstraintRaw"
    ELSE "Ok"

initialize(authority, rewards_pool) ==
    LET check == InitializeAccounts(authority, rewards_pool) IN
    IF check # "Ok" THEN Abort(token_accounts, check, 0, 0)
    ELSE Outcome("Ok",
                 [exists |-> TRUE, authority |-> authority, rewards_pool |-> rewards_pool,
                  total_staked |-> 0, staker_count |-> 0],
                 stake_accounts, token_accounts, 0, 0)

Initialize(authority, rewards_pool) ==
    Commit("initialize", initialize(authority, rewards_pool))

\* ----------------------------------------------------------------- stake
\* faulty variant: the stake account is not `init`, it may exist already
StakeAccountsNoInit(owner, stake_account, token_account, staking_vault, amount) ==
    IF ~staking_authority.exists THEN "AccountNotInitialized"
    ELSE IF stake_account # owner THEN "ConstraintSeeds"
    ELSE IF token_accounts[token_account].owner # owner THEN "ConstraintRaw"
    ELSE IF ~(token_accounts[token_account].amount >= amount) THEN "ConstraintRaw"
    ELSE IF token_accounts[staking_vault].owner # PDA THEN "ConstraintRaw"
    ELSE "Ok"

\* #[derive(Accounts)] Stake
StakeAccounts(owner, stake_account, token_account, staking_vault, amount) ==
    IF ~staking_authority.exists THEN "AccountNotInitialized"
    ELSE IF stake_account # owner THEN "ConstraintSeeds"
    ELSE IF stake_accounts[stake_account].exists THEN "AccountAlreadyInUse"
    ELSE IF token_accounts[token_account].owner # owner THEN "ConstraintRaw"
    ELSE IF ~(token_accounts[token_account].amount >= amount) THEN "ConstraintRaw"
    ELSE IF token_accounts[staking_vault].owner # PDA THEN "ConstraintRaw"
    ELSE "Ok"

\* faulty variant: no check of the amount
stake_amount_any(amount) == TRUE

\* require!(amount > 0, ErrorCode::InvalidAmount)
stake_amount_valid(amount) == amount > 0

\* total_staked.checked_add(amount), staker_count.checked_add(1)
stake_update_authority(sa, amount) ==
    [sa EXCEPT !.total_staked = @ + amount, !.staker_count = @ + 1]

stake(owner, stake_account, token_account, staking_vault, amount, lock_period_days) ==
    LET check == StakeAccounts(owner, stake_account, token_account, staking_vault, amount)
        apy == calculate_apy(lock_period_days)
        current_timestamp == clock
        unlock_timestamp == current_timestamp + lock_period_days * DaySecs
        new_account == [exists |-> TRUE, owner |-> owner, token_account |-> token_account,
                        deposit_amount |-> amount, start_time |-> current_timestamp,
                        unlock_time |-> unlock_timestamp, apy |-> apy,
                        rewards_claimed |-> 0, last_claimed_time |-> current_timestamp,
                        is_active |-> TRUE]
        xfer == token_transfer(token_accounts, token_account, staking_vault, amount)
    IN
    IF check # "Ok" THEN Abort(token_accounts, check, 0, 0)
    ELSE IF ~stake_amount_valid(amount) THEN Abort(token_accounts, "InvalidAmount", 0, 0)
    ELSE IF ~xfer.ok THEN Abort(token_accounts, "InsufficientFunds", 0, 0)
    ELSE IF checked_add_is_none(staking_authority.total_staked, amount)
         THEN Abort(xfer.toks, "Panic", amount, 0)
    ELSE IF checked_add_is_none(staking_authority.staker_count, 1)
         THEN Abort(xfer.toks, "Panic", amount, 0)
    ELSE Outcome("Ok", stake_update_authority(staking_authority, amount),
                 [stake_accounts EXCEPT ![stake_account] = new_account],
                 xfer.toks, amount, 0)

Stake(owner, stake_account, token_account, staking_vault, amount, lock_period_days) ==
    Commit("stake",
           stake(owner, stake_account, token_account, staking_vault, amount, lock_period_days))

\* --------------------------------------------------------------- unstake
UnstakeAccounts(owner, stake_account, token_account, staking_vault, rewards_pool) ==
    IF ~staking_authority.exists THEN "AccountNotInitialized"
    ELSE IF ~stake_accounts[stake_account].exists THEN "AccountNotInitialized"
    ELSE IF stake_account # owner THEN "ConstraintSeeds"
    ELSE IF stake_accounts[stake_account].owner # owner THEN "ConstraintRaw"
    ELSE IF ~(stake_accounts[stake_account].is_active = TRUE) THEN "ConstraintRaw"
    ELSE IF token_accounts[token_account].owner # owner THEN "ConstraintRaw"
    ELSE IF token_accounts[staking_vault].owner # PDA THEN "ConstraintRaw"
    ELSE IF token_accounts[rewards_pool].owner # PDA THEN "ConstraintRaw"
    ELSE "Ok"

\* faulty variant: no time gate
unstake_gate_open(acct, owner, current_timestamp) == TRUE

\* require!(current_timestamp >= unlock_time || authority == owner.key(), ...)
unstake_gate(acct, owner, current_timestamp) ==
    current_timestamp >= acct.unlock_time \/ staking_authority.authority = owner

\* faulty variant: staker_count is not decremented
unstake_update_authority_amount_only(sa, acct) ==
    [sa EXCEPT !.total_staked = @ - acct.deposit_amount]

\* total_staked.checked_sub(deposit_amount), staker_count.checked_sub(1)
unstake_update_authority(sa, acct) ==
    [sa EXCEPT !.total_staked = @ - acct.deposit_amount, !.staker_count = @ - 1]

\* faulty variant: the account is marked inactive but not closed
close_keeping_data(accts, stake_account) ==
    [accts EXCEPT ![stake_account].is_active = FALSE]

\* is_active = false, then `close = owner` frees the account at exit
close_stake_account(accts, stake_account) ==
    [accts EXCEPT ![stake_account] = NoAccount]

unstake(owner, stake_account, token_account, staking_vault, rewards_pool) ==
    LET check == UnstakeAccounts(owner, stake_account, token_account, staking_vault, rewards_pool)
        acct == stake_accounts[stake_account]
        current_timestamp == clock
        rewards == calculate_rewards(acct.deposit_amount, acct.apy, acct.start_time,
                                     current_timestamp, acct.rewards_claimed)
        xfer1 == token_transfer(token_accounts, staking_vault, token_account, acct.deposit_amount)
        xfer2 == IF rewards > 0
                 THEN token_transfer(xfer1.toks, rewards_pool, token_account, rewards)
                 ELSE xfer1
    IN
    IF check # "Ok" THEN Abort(token_accounts, check, 0, 0)
    ELSE IF ~unstake_gate(acct, owner, current_timestamp)
         THEN Abort(token_accounts, "StakingPeriodNotEnded", 0, 0)
    ELSE IF ~xfer1.ok THEN Abort(token_accounts, "InsufficientFunds", 0, 0)
    ELSE IF ~xfer2.ok THEN Abort(xfer1.toks, "InsufficientFunds", acct.deposit_amount, 0)
    ELSE IF checked_sub_is_none(staking_authority.total_staked, acct.deposit_amount)
         THEN Abort(xfer2.toks, "Panic", acct.deposit_amount, rewards)
    ELSE IF checked_sub_is_none(staking_authority.staker_count, 1)
         THEN Abort(xfer2.toks, "Panic", acct.deposit_amount, rewards)
    ELSE Outcome("Ok", unstake_update_authority(staking_authority, acct),
                 close_stake_account(stake_accounts, stake_account),
                 xfer2.toks, acct.deposit_amount, rewards)

Unstake(owner, stake_account, token_account, staking_vault, rewards_pool) ==
    Commit("unstake", unstake(owner, stake_account, token_account, staking_vault, rewards_pool))

\* --------------------------------------------------------- claim_rewards
\* faulty variant: no constraint on the owner of token_account
ClaimRewardsAccountsAnyRecipient(owner, stake_account, token_account, rewards_pool) ==
    IF ~staking_authority.exists THEN "AccountNotInitialized"
    ELSE IF ~stake_accounts[stake_account].exists THEN "AccountNotInitialized"
    ELSE IF stake_account # owner THEN "ConstraintSeeds"
    ELSE IF stake_accounts[stake_account].owner # owner THEN "ConstraintRaw"
    ELSE IF token_accounts[rewards_pool].owner # PDA THEN "ConstraintRaw"
    ELSE "Ok"

\* #[derive(Accounts)] ClaimRewards
ClaimRewardsAccounts(owner, stake_account, token_account, rewards_pool) ==
    IF ~staking_authority.exists THEN "AccountNotInitialized"
    ELSE IF ~stake_accounts[stake_account].exists THEN "AccountNotInitialized"
    ELSE IF stake_account # owner THEN "ConstraintSeeds"
    ELSE IF stake_accounts[stake_account].owner # owner THEN "ConstraintRaw"
    ELSE IF token_accounts[token_account].owner # owner THEN "ConstraintRaw"
    ELSE IF token_accounts[rewards_pool].owner # PDA THEN "ConstraintRaw"
    ELSE "Ok"

\* faulty variant: accrual counted from start_time
claim_accrued_since_start(acct, current_timestamp) ==
    calculate_rewards(acct.deposit_amount, acct.apy, acct.start_time, current_timestamp, 0)

\* calculate_rewards(deposit_amount, apy, last_claimed_time, current_timestamp, 0)
claim_accrued(acct, current_timestamp) ==
    calculate_rewards(acct.deposit_amount, acct.apy, acct.last_claimed_time,
                      current_timestamp, 0)

\* faulty variant: the claim is timestamped but not counted
claim_update_time_only(acct, rewards, current_timestamp) ==
    [acct EXCEPT !.last_claimed_time = current_timestamp]

\* rewards_claimed.checked_add(rewards), last_claimed_time = current_timestamp
claim_update_stake_account(acct, rewards, current_timestamp) ==
    [acct EXCEPT !.rewards_claimed = @ + rewards,
                 !.last_claimed_time = current_timestamp]

claim_rewards(owner, stake_account, token_account, rewards_pool) ==
    LET check == ClaimRewardsAccounts(owner, stake_account, token_account, rewards_pool)
        acct == stake_accounts[stake_account]
        current_timestamp == clock
        rewards == claim_accrued(acct, current_timestamp)
        xfer == token_transfer(token_accounts, rewards_pool, token_account, rewards)
    IN
    IF check # "Ok" THEN Abort(token_accounts, check, 0, 0)
    ELSE IF ~acct.is_active THEN Abort(token_accounts, "InactiveStake", 0, 0)
    ELSE IF ~(rewards > 0) THEN Abort(token_accounts, "NoRewardsAvailable", 0, 0)
    ELSE IF ~xfer.ok THEN Abort(token_accounts, "InsufficientFunds", 0, 0)
    ELSE IF checked_add_is_none(acct.rewards_claimed, rewards)
         THEN Abort(xfer.toks, "Panic", 0, rewards)
    ELSE Outcome("Ok", staking_authority,
                 [stake_accounts EXCEPT ![stake_account] =
                     claim_update_stake_account(acct, rewards, current_timestamp)],
                 xfer.toks, 0, rewards)

ClaimRewards(owner, stake_account, token_account, rewards_pool) ==
    Commit("claim_rewards", claim_rewards(owner, stake_account, token_account, rewards_pool))

\* ----------------------------------------------------------------- clock
Tick(step) ==
    /\ clock + step <= MaxNow
    /\ clock' = clock + step
    /\ UNCHANGED <<staking_authority, stake_accounts, token_accounts, lastResult>>

\* ---------------------------------------------------------- specification
Next ==
    \/ \E step \in TimeSteps : Tick(step)
    \/ \E authority \in Deployers, rewards_pool \in InitRewardsPools :
          Initialize(authority, rewards_pool)
    \/ \E owner \in Users, stake_account \in Users,
          token_account \in OwnerAccountArgs, staking_vault \in CustodyAccountArgs,
          amount \in Amounts, lock_period_days \in LockDays :
          Stake(owner, stake_account, token_account, staking_vault, amount, lock_period_days)
    \/ \E owner \in Users, stake_account \in Users,
          token_account \in OwnerAccountArgs, staking_vault \in CustodyAccountArgs,
          rewards_pool \in CustodyAccountArgs :
          Unstake(owner, stake_account, token_account, staking_vault, rewards_pool)
    \/ \E owner \in Users, stake_account \in Users,
          token_account \in OwnerAccountArgs, rewards_pool \in CustodyAccountArgs :
          ClaimRewards(owner, stake_account, token_account, rewards_pool)

Spec == Init /\ [][Next]_vars

\* ------------------------------ the same program, the whole supply at stake
\* The mint's supply is the largest u64 and the two depositors hold all of it;
\* the program's token accounts start empty.
FullSupplyTokenAccounts ==
    [k \in TokenAccountKeys |->
        CASE k = "alice_ta" -> [owner |-> "alice", amount |-> MaxU64 - 73]
          [] k = "bob_ta"   -> [owner |-> "bob",   amount |-> 73]
          [] k = "vault"    -> [owner |-> PDA,     amount |-> 0]
          [] k = "reserve"  -> [owner |-> PDA,     amount |-> 0]]

FullSupplyAmounts == {73, 78, MaxU64 - 73}
\* with an empty reserve, rewards are paid from whichever account holds tokens
FullSupplyRewardsPools == {"vault", "reserve"}

InitFullSupply ==
    /\ clock = 0
    /\ staking_authority = NoAccount
    /\ stake_accounts = [u \in Users |-> NoAccount]
    /\ token_accounts = FullSupplyTokenAccounts
    /\ lastResult = Result("none", "Ok", 0, 0)

NextFullSupply ==
    \/ \E step \in TimeSteps : Tick(step)
    \/ \E authority \in Deployers, rewards_pool \in InitRewardsPools :
          Initialize(authority, rewards_pool)
    \/ \E owner \in Users, token_account \in OwnerAccountArgs,
          amount \in FullSupplyAmounts, lock_period_days \in LockDays :
          Stake(owner, owner, token_account, "vault", amount, lock_period_days)
    \/ \E owner \in Users, token_account \in OwnerAccountArgs,
          rewards_pool \in FullSupplyRewardsPools :
          Unstake(owner, owner, token_account, "vault", rewards_pool)
    \/ \E owner \in Users, token_account \in OwnerAccountArgs,
          rewards_pool \in FullSupplyRewardsPools :
          ClaimRewards(owner, owner, token_account, rewards_pool)

SpecFullSupply == InitFullSupply /\ [][NextFullSupply]_vars

\* --------------------------- the rewards of an unstake, at u64 amounts
\* A stake account of deposit_amount `amount`, created at time 0 for
\* lock_period_days and never claimed on, is unstaked by its owner after
\* elapsed_days: the rewards the unstake computes for it.
WideTokens == 1000000001..1000000020
WideAmounts == {BigMul[BigFromInt[t], BigFromInt[1000000000]] : t \in WideTokens}
WideLockDays == {30, 90, 200, 365}
ElapsedDays == {125, 250, 365}

UnstakeRewards(amount, lock_period_days, elapsed_days) ==
    /\ elapsed_days >= lock_period_days
    /\ clock' = elapsed_days * DaySecs
    /\ lastResult' = [op |-> "unstake_rewards", err |-> "Ok",
                      amount |-> amount, lock_period_days |-> lock_period_days,
                      rewards |-> calculate_rewards_u64(amount, calculate_apy(lock_period_days),
                                                        0, elapsed_days * DaySecs)]
    /\ UNCHANGED <<staking_authority, stake_accounts, token_accounts>>

NextRewards ==
    \E amount \in WideAmounts, lock_period_days \in WideLockDays, elapsed_days \in ElapsedDays :
       UnstakeRewards(amount, lock_period_days, elapsed_days)

SpecRewards == Init /\ [][NextRewards]_vars

\* ============================================================== claims
ActiveOwners == {u \in Users : stake_accounts[u].exists /\ stake_accounts[u].is_active}

RECURSIVE SumDeposits(_)
SumDeposits(S) ==
    IF S = {} THEN 0
    ELSE LET u == CHOOSE x \in S : TRUE
         IN stake_accounts[u].deposit_amount + SumDeposits(S \ {u})

\* C1 -- Conservation: in every reachable state total_staked is the sum of
\* deposit_amount over the active stake accounts and staker_count is their
\* number; before initialize there is no aggregate and no stake account.
C1_Conservation ==
    IF staking_authority.exists
    THEN /\ staking_authority.total_staked = SumDeposits(ActiveOwners)
         /\ staking_authority.staker_count = Cardinality(ActiveOwners)
    ELSE ActiveOwners = {}

\* two stakes and then an unstake have been counted
C1_Witness ==
    /\ lastResult.op = "unstake" /\ lastResult.err = "Ok"
    /\ Cardinality(ActiveOwners) = 1
    /\ staking_authority.total_staked > 0

\* an outcome that leaves every account as it is
NoChange(out) ==
    /\ out.staking_authority = staking_authority
    /\ out.stake_accounts = stake_accounts
    /\ out.token_accounts = token_accounts

\* the accounts a well-formed call passes: the caller's own token account,
\* and token accounts of the program's authority as vault and rewards pool
OwnTokenAccounts(owner) == {k \in OwnerAccountArgs : token_accounts[k].owner = owner}
CustodyAccounts == {k \in CustodyAccountArgs : token_accounts[k].owner = PDA}

IsActive(u) == stake_accounts[u].exists /\ stake_accounts[u].is_active

\* C2 -- Time gate: an unstake of an active stake account, called by its owner
\* before unlock_time when the owner is not the admin authority, fails with
\* StakingPeriodNotEnded and changes no account.
C2_TimeGate ==
    \A owner \in Users :
       ( /\ staking_authority.exists /\ IsActive(owner)
         /\ clock < stake_accounts[owner].unlock_time
         /\ staking_authority.authority # owner )
       => \A token_account \in OwnTokenAccounts(owner),
             staking_vault \in CustodyAccounts, rewards_pool \in CustodyAccounts :
             LET out == unstake(owner, owner, token_account, staking_vault, rewards_pool)
             IN out.err = "StakingPeriodNotEnded" /\ NoChange(out)

\* a non-admin's early unstake was refused, with rewards already accrued
C2_Witness ==
    /\ lastResult.op = "unstake" /\ lastResult.err = "StakingPeriodNotEnded"
    /\ \E u \in ActiveOwners :
          /\ u # staking_authority.authority
          /\ stake_accounts[u].start_time < clock
          /\ clock < stake_accounts[u].unlock_time

\* C3 -- Admin override (as claimed): an unstake of any depositor's active
\* stake account submitted by the admin authority succeeds at any time, given
\* that the vault holds the principal and the reserve the computed rewards.
C3_AdminOverrideAnyRecord ==
    \A stake_account \in Users :
       LET admin == staking_authority.authority
           acct  == stake_accounts[stake_account]
       IN ( /\ staking_authority.exists /\ IsActive(stake_account)
            /\ token_accounts["vault"].amount >= acct.deposit_amount
            /\ token_accounts["reserve"].amount >=
                  calculate_rewards(acct.deposit_amount, acct.apy, acct.start_time,
                                    clock, acct.rewards_claimed) )
          => \A token_account \in OwnTokenAccounts(admin) :
                unstake(admin, stake_account, token_account, "vault", "reserve").err = "Ok"

\* C4 -- Zero stake (as claimed): a stake of amount 0 always fails with
\* InvalidAmount and changes no account.
C4_ZeroStakeInvalidAmount ==
    staking_authority.exists =>
       \A owner \in Users, lock_period_days \in LockDays :
          \A token_account \in OwnTokenAccounts(owner), staking_vault \in CustodyAccounts :
             LET out == stake(owner, owner, token_account, staking_vault, 0, lock_period_days)
             IN out.err = "InvalidAmount" /\ NoChange(out)

\* C4 (amended) -- a stake of amount 0 always fails and changes no account,
\* whatever accounts are passed; the error is InvalidAmount whenever the call
\* gets past account validation, that is whenever the staking authority is
\* initialized and the depositor has no stake account yet.
C4_ZeroStakeFails ==
    \A owner \in Users, stake_account \in Users, token_account \in OwnerAccountArgs,
       staking_vault \in CustodyAccountArgs, lock_period_days \in LockDays :
       LET out == stake(owner, stake_account, token_account, staking_vault, 0, lock_period_days)
       IN /\ out.err # "Ok"
          /\ NoChange(out)
          /\ ( /\ staking_authority.exists
               /\ stake_account = owner /\ ~stake_accounts[owner].exists
               /\ token_account \in OwnTokenAccounts(owner)
               /\ staking_vault \in CustodyAccounts )
             => out.err = "InvalidAmount"

\* a zero stake was refused by the handler
C4_Witness ==
    /\ lastResult.op = "stake" /\ lastResult.err = "InvalidAmount"
    /\ staking_authority.exists
    /\ \E u \in Users : ~stake_accounts[u].exists

\* tier(d) of the specification, in basis points
TierBasisPoints(d) ==
    IF d >= 365 THEN 1500
    ELSE IF d >= 180 THEN 1200
    ELSE IF d >= 90 THEN 800
    ELSE 500

\* accrue of the specification:
\* floor(principal * rate/10000 * elapsedSeconds / (365*86400)), exactly
Accrue(principal, rateBasisPoints, elapsedSeconds) ==
    IF elapsedSeconds <= 0 THEN 0
    ELSE BigToInt[BigDiv[BigDiv[BigDiv[
            BigMul[BigMul[BigFromInt[principal], BigFromInt[rateBasisPoints]],
                   BigFromInt[elapsedSeconds]],
            10000], 246375], 128]]

\* the tier of the lock duration the stake account was created with
RateBasisPoints(acct) == TierBasisPoints((acct.unlock_time - acct.start_time) \div DaySecs)

\* C5 -- a claim on an active stake account whose accrued rewards since
\* last_claimed_time are 0 fails with NoRewardsAvailable and changes no
\* account; so does a claim at the instant of the previous claim.
C5_NoRewardsAvailable ==
    \A owner \in Users :
       LET acct == stake_accounts[owner] IN
       ( /\ staking_authority.exists /\ IsActive(owner)
         /\ \/ Accrue(acct.deposit_amount, RateBasisPoints(acct),
                      clock - acct.last_claimed_time) = 0
            \/ acct.last_claimed_time = clock )
       => \A token_account \in OwnTokenAccounts(owner), rewards_pool \in CustodyAccounts :
             LET out == claim_rewards(owner, owner, token_account, rewards_pool)
             IN out.err = "NoRewardsAvailable" /\ NoChange(out)

\* a second claim at the instant of a paid first claim was refused
C5_Witness ==
    /\ lastResult.op = "claim_rewards" /\ lastResult.err = "NoRewardsAvailable"
    /\ ActiveOwners # {}
    /\ \A u \in ActiveOwners :
          /\ stake_accounts[u].rewards_claimed > 0
          /\ stake_accounts[u].last_claimed_time = clock

\* C6 -- Unstake is terminal: a successful unstake leaves no stake account at
\* the owner's address; while there is none, every claim and every unstake
\* naming that address fails and changes no account; a stake account only
\* comes (back) into being by a stake, as a fresh record; no closed record
\* stays visible.
C6_UnstakeTerminal ==
    /\ \A u \in Users : stake_accounts[u].exists => stake_accounts[u].is_active
    /\ \A owner \in Users, stake_account \in Users, token_account \in OwnerAccountArgs,
          staking_vault \in CustodyAccountArgs, rewards_pool \in CustodyAccountArgs :
          LET un == unstake(owner, stake_account, token_account, staking_vault, rewards_pool)
              cl == claim_rewards(owner, stake_account, token_account, rewards_pool)
          IN /\ un.err = "Ok" => ~un.stake_accounts[stake_account].exists
             /\ ~stake_accounts[stake_account].exists =>
                   /\ un.err # "Ok" /\ NoChange(un)
                   /\ cl.err # "Ok" /\ NoChange(cl)
    /\ \A owner \in Users, token_account \in OwnerAccountArgs,
          staking_vault \in CustodyAccountArgs, amount \in Amounts,
          lock_period_days \in LockDays :
          LET st == stake(owner, owner, token_account, staking_vault, amount, lock_period_days)
          IN st.err = "Ok" =>
                /\ ~stake_accounts[owner].exists
                /\ st.stake_accounts[owner].is_active
                /\ st.stake_accounts[owner].rewards_claimed = 0
                /\ st.stake_accounts[owner].start_time = clock
                /\ st.stake_accounts[owner].last_claimed_time = clock

\* every stake account is closed again, rewards were paid out on the way, and
\* an unstake on a closed account was refused
C6_Witness ==
    /\ staking_authority.exists
    /\ \A u \in Users : ~stake_accounts[u].exists
    /\ \E k \in OwnerAccountArgs : token_accounts[k].amount > InitialTokenAccounts[k].amount
    /\ lastResult.op = "unstake" /\ lastResult.err = "AccountNotInitialized"

C8_UnstakePaysLikeClaim ==
    \A owner \in Users, token_account \in OwnerAccountArgs,
       staking_vault \in CustodyAccountArgs, rewards_pool \in CustodyAccountArgs :
       LET out == unstake(owner, owner, token_account, staking_vault, rewards_pool)
       IN out.err = "Ok" =>
             out.rewards = claim_accrued(stake_accounts[owner], clock)

\* C9 -- (as claimed) a successful claim moves exactly
\* floor(deposit * rate/10000 * (now - last_claimed_time) / (365*86400))
\* from the rewards pool to the depositor.
C9_ClaimPaysExactAccrual ==
    \A owner \in Users, token_account \in OwnerAccountArgs, rewards_pool \in CustodyAccountArgs :
       LET acct == stake_accounts[owner]
           out  == claim_rewards(owner, owner, token_account, rewards_pool)
           owed == Accrue(acct.deposit_amount, RateBasisPoints(acct),
                          clock - acct.last_claimed_time)
       IN out.err = "Ok" =>
             /\ out.rewards = owed
             /\ out.token_accounts[rewards_pool].amount =
                   token_accounts[rewards_pool].amount - owed
             /\ out.token_accounts[token_account].amount =
                   token_accounts[token_account].amount + owed

\* C10 -- (as claimed) the rate stake stores in the new stake account is the
\* tier of the lock duration in basis points: 1500, 1200, 800 or 500.
C10_StoredRateIsTier ==
    \A owner \in Users, token_account \in OwnerAccountArgs,
       staking_vault \in CustodyAccountArgs, amount \in Amounts,
       lock_period_days \in LockDays :
       LET out == stake(owner, owner, token_account, staking_vault, amount, lock_period_days)
       IN out.err = "Ok" =>
             /\ out.stake_accounts[owner].apy = TierBasisPoints(lock_period_days)
             /\ out.stake_accounts[owner].apy \in {500, 800, 1200, 1500}


\* C11 -- (as claimed) Claim frame: a claim, successful or failed, leaves the
\* aggregates and the vault balance as they are, leaves is_active,
\* deposit_amount, start_time, unlock_time and apy of the claimed stake account
\* as they are, and changes nothing on any other stake account.
C11_ClaimFrame ==
    \A owner \in Users, stake_account \in Users, token_account \in OwnerAccountArgs,
       rewards_pool \in CustodyAccountArgs :
       LET out == claim_rewards(owner, stake_account, token_account, rewards_pool)
           old == stake_accounts[stake_account]
           new == out.stake_accounts[stake_account]
       IN /\ out.staking_authority = staking_authority
          /\ out.token_accounts["vault"].amount = token_accounts["vault"].amount
          /\ \A u \in Users \ {stake_account} : out.stake_accounts[u] = stake_accounts[u]
          /\ new.exists = old.exists
          /\ old.exists =>
                /\ new.is_active = old.is_active
                /\ new.deposit_amount = old.deposit_amount
                /\ new.start_time = old.start_time
                /\ new.unlock_time = old.unlock_time
                /\ new.apy = old.apy

\* C12 -- Initialize runs once: while there is no StakingAuthority, an
\* initialize offered a rewards pool of the program's authority creates it
\* with total_staked = 0, staker_count = 0, the caller as admin authority and
\* that rewards pool, and every stake, claim and unstake fails and changes no
\* account; once it exists, every initialize fails and changes no account.
C12_InitializeOnce ==
    /\ \A authority \in Users, rewards_pool \in TokenAccountKeys :
          LET out == initialize(authority, rewards_pool) IN
          IF staking_authority.exists
          THEN out.err # "Ok" /\ NoChange(out)
          ELSE token_accounts[rewards_pool].owner = PDA =>
                  /\ out.err = "Ok"
                  /\ out.staking_authority =
                        [exists |-> TRUE, authority |-> authority,
                         rewards_pool |-> rewards_pool,
                         total_staked |-> 0, staker_count |-> 0]
                  /\ out.stake_accounts = stake_accounts
                  /\ out.token_accounts = token_accounts
    /\ ~staking_authority.exists =>
          \A owner \in Users, stake_account \in Users, token_account \in OwnerAccountArgs,
             staking_vault \in CustodyAccountArgs, rewards_pool \in CustodyAccountArgs :
             LET un == unstake(owner, stake_account, token_account, staking_vault, rewards_pool)
                 cl == claim_rewards(owner, stake_account, token_account, rewards_pool)
             IN /\ un.err # "Ok" /\ NoChange(un)
                /\ cl.err # "Ok" /\ NoChange(cl)
                /\ \A amount \in Amounts, lock_period_days \in LockDays :
                      LET st == stake(owner, stake_account, token_account, staking_vault,
                                      amount, lock_period_days)
                      IN st.err # "Ok" /\ NoChange(st)

\* a second initialize was refused while stakes were held
C12_Witness ==
    /\ lastResult.op = "initialize" /\ lastResult.err = "AccountAlreadyInUse"
    /\ staking_authority.total_staked > 0
    /\ staking_authority.staker_count = Cardinality(Users)


\* C13 -- Checked aggregates: total_staked and staker_count stay within
\* 0..MaxU64; a stake whose amount added to total_staked (or 1 added to
\* staker_count) exceeds MaxU64 fails and changes no account, a successful
\* stake leaves exactly total_staked + amount and staker_count + 1; an unstake
\* that would take either below zero fails and changes no account, a
\* successful one leaves exactly total_staked - deposit_amount and
\* staker_count - 1.
C13_CheckedAggregates ==
    staking_authority.exists =>
       /\ staking_authority.total_staked \in 0..MaxU64
       /\ staking_authority.staker_count \in 0..MaxU64
       /\ \A owner \in Users, stake_account \in Users, token_account \in OwnerAccountArgs,
             staking_vault \in CustodyAccountArgs :
             /\ \A amount \in FullSupplyAmounts \cup Amounts, lock_period_days \in LockDays :
                   LET st == stake(owner, stake_account, token_account, staking_vault,
                                   amount, lock_period_days)
                   IN /\ ( \/ staking_authority.total_staked + amount > MaxU64
                           \/ staking_authority.staker_count + 1 > MaxU64 )
                         => st.err # "Ok" /\ NoChange(st)
                      /\ st.err = "Ok" =>
                            /\ st.staking_authority.total_staked =
                                  staking_authority.total_staked + amount
                            /\ st.staking_authority.staker_count =
                                  staking_authority.staker_count + 1
             /\ \A rewards_pool \in CustodyAccountArgs :
                   LET un == unstake(owner, stake_account, token_account, staking_vault,
                                     rewards_pool)
                       deposit == stake_accounts[stake_account].deposit_amount
                   IN /\ ( /\ stake_accounts[stake_account].exists
                           /\ \/ staking_authority.total_staked < deposit
                              \/ staking_authority.staker_count < 1 )
                         => un.err # "Ok" /\ NoChange(un)
                      /\ un.err = "Ok" =>
                            /\ un.staking_authority.total_staked =
                                  staking_authority.total_staked - deposit
                            /\ un.staking_authority.staker_count =
                                  staking_authority.staker_count - 1

\* a stake panicked in checked_add, after its transfer into the vault
C13_Witness ==
    /\ lastResult.op = "stake" /\ lastResult.err = "Panic"
    /\ lastResult.principal > 0
    /\ staking_authority.total_staked + lastResult.principal > MaxU64


\* C14 -- Stake postcondition: a successful stake(amount, lock_period_days) at
\* time clock is made by a depositor holding at least amount; it creates the
\* depositor's stake account with is_active = TRUE, deposit_amount = amount,
\* start_time = last_claimed_time = clock, rewards_claimed = 0 and
\* unlock_time = clock + lock_period_days * 86400, moves amount from the
\* depositor's token account to the staking vault of the call and touches no
\* other balance, raises total_staked by amount and staker_count by 1 and
\* leaves the other stake accounts alone; a stake of more than the
\* depositor's token account holds fails and changes no account.
C14_StakePostcondition ==
    \A owner \in Users, stake_account \in Users, token_account \in OwnerAccountArgs,
       staking_vault \in CustodyAccountArgs, amount \in Amounts,
       lock_period_days \in LockDays :
       LET out == stake(owner, stake_account, token_account, staking_vault,
                        amount, lock_period_days)
           new == out.stake_accounts[owner]
       IN /\ out.err = "Ok" =>
                /\ stake_account = owner
                /\ token_accounts[token_account].owner = owner
                /\ token_accounts[token_account].amount >= amount
                /\ ~stake_accounts[owner].exists
                /\ new.exists /\ new.is_active = TRUE
                /\ new.owner = owner
                /\ new.deposit_amount = amount
                /\ new.start_time = clock
                /\ new.last_claimed_time = clock
                /\ new.rewards_claimed = 0
                /\ new.unlock_time = clock + lock_period_days * 86400
                /\ \A u \in Users \ {owner} : out.stake_accounts[u] = stake_accounts[u]
                /\ out.token_accounts[token_account].amount =
                      token_accounts[token_account].amount - amount
                /\ out.token_accounts[staking_vault].amount =
                      token_accounts[staking_vault].amount + amount
                /\ \A k \in TokenAccountKeys \ {token_account, staking_vault} :
                      out.token_accounts[k] = token_accounts[k]
                /\ out.staking_authority.total_staked =
                      staking_authority.total_staked + amount
                /\ out.staking_authority.staker_count =
                      staking_authority.staker_count + 1
          /\ amount > token_accounts[token_account].amount =>
                out.err # "Ok" /\ NoChange(out)

\* a stake went through some time after the start, next to an older stake,
\* and a stake of more than the depositor holds is on offer
C14_Witness ==
    /\ lastResult.op = "stake" /\ lastResult.err = "Ok" /\ lastResult.principal > 0
    /\ clock > 0
    /\ \E u \in ActiveOwners, v \in ActiveOwners :
          /\ stake_accounts[u].start_time = clock
          /\ stake_accounts[u].unlock_time = clock + 200 * DaySecs
          /\ stake_accounts[v].start_time < clock
    /\ \E k \in OwnerAccountArgs, amount \in Amounts : amount > token_accounts[k].amount


\* the tokens `who` holds over all its token accounts
RECURSIVE SumAmounts(_, _)
SumAmounts(toks, S) ==
    IF S = {} THEN 0
    ELSE LET k == CHOOSE x \in S : TRUE
         IN toks[k].amount + SumAmounts(toks, S \ {k})

Holdings(toks, who) == SumAmounts(toks, {k \in TokenAccountKeys : toks[k].owner = who})

\* every stake account has start_time <= last_claimed_time <= clock, and a
\* successful claim pays a positive amount, debits the rewards pool of the call
\* and credits the owner by it, adds it to rewards_claimed and sets
\* last_claimed_time to the clock
C15_ClaimEffect ==
    /\ \A u \in Users :
          stake_accounts[u].exists =>
             /\ stake_accounts[u].start_time <= stake_accounts[u].last_claimed_time
             /\ stake_accounts[u].last_claimed_time <= clock
    /\ \A owner \in Users, stake_account \in Users, token_account \in OwnerAccountArgs,
          rewards_pool \in CustodyAccountArgs :
          LET out == claim_rewards(owner, stake_account, token_account, rewards_pool)
              old == stake_accounts[stake_account]
              new == out.stake_accounts[stake_account]
          IN out.err = "Ok" =>
                /\ out.rewards > 0
                /\ new.rewards_claimed = old.rewards_claimed + out.rewards
                /\ new.last_claimed_time = clock
                /\ out.token_accounts[rewards_pool].amount =
                      token_accounts[rewards_pool].amount - out.rewards
                /\ out.token_accounts[token_account].amount =
                      token_accounts[token_account].amount + out.rewards

\* in every step: a stake account that stays in being keeps or advances
\* last_claimed_time, and its rewards_claimed grows by what its owner's
\* holdings grow, which happens in a successful claim only; a stake account
\* that comes into being has rewards_claimed = 0 and last_claimed_time =
\* start_time = clock
C15_ClaimStep ==
    \A u \in Users :
       LET old == stake_accounts[u]
           new == stake_accounts'[u]
       IN /\ (old.exists /\ new.exists) =>
                /\ new.last_claimed_time >= old.last_claimed_time
                /\ new.rewards_claimed - old.rewards_claimed =
                      Holdings(token_accounts', u) - Holdings(token_accounts, u)
                /\ new.rewards_claimed # old.rewards_claimed =>
                      /\ lastResult'.op = "claim_rewards" /\ lastResult'.err = "Ok"
                      /\ lastResult'.rewards = new.rewards_claimed - old.rewards_claimed
                      /\ new.last_claimed_time = clock'
          /\ (~old.exists /\ new.exists) =>
                /\ new.rewards_claimed = 0
                /\ new.last_claimed_time = clock'
                /\ new.start_time = clock'

\* C15 -- Claim bookkeeping: each successful claim raises rewards_claimed by
\* exactly the amount it pays and sets last_claimed_time to the clock;
\* rewards_claimed starts at 0 and changes in no other step, so it is the total
\* the claims on that stake account have paid to its owner; start_time <=
\* last_claimed_time <= clock, and last_claimed_time never decreases.
C15_ClaimBookkeeping == []C15_ClaimEffect /\ [][C15_ClaimStep]_vars

\* a second claim was paid on a stake account: rewards_claimed holds both
C15_Witness ==
    /\ lastResult.op = "claim_rewards" /\ lastResult.err = "Ok"
    /\ \E u \in ActiveOwners :
          /\ stake_accounts[u].last_claimed_time = clock
          /\ stake_accounts[u].start_time < clock
          /\ stake_accounts[u].rewards_claimed > lastResult.rewards
          /\ lastResult.rewards > 0


\* C16 -- No double payment, at the amounts of Spec: when an unstake succeeds at time
\* clock, the rewards it pays are not negative and, added to rewards_claimed
\* (the total the claims on the stake account have paid), do not exceed
\* accrue(deposit_amount, rate, clock - start_time).
C16_NoDoublePayment ==
    \A owner \in Users, token_account \in OwnerAccountArgs,
       staking_vault \in CustodyAccountArgs, rewards_pool \in CustodyAccountArgs :
       LET out  == unstake(owner, owner, token_account, staking_vault, rewards_pool)
           acct == stake_accounts[owner]
       IN out.err = "Ok" =>
             /\ out.rewards >= 0
             /\ acct.rewards_claimed + out.rewards <=
                   Accrue(acct.deposit_amount, RateBasisPoints(acct), clock - acct.start_time)


\* a <= b for limb sequences without leading zero limbs
BigLeq[a \in Limbs, b \in Limbs] ==
    IF Len(a) # Len(b) THEN Len(a) < Len(b)
    ELSE IF a = <<>> THEN TRUE
    ELSE IF a[Len(a)] # b[Len(b)] THEN a[Len(a)] < b[Len(b)]
    ELSE BigLeq[BigStrip[SubSeq(a, 1, Len(a) - 1)], BigStrip[SubSeq(b, 1, Len(b) - 1)]]

\* accrue of the specification for a u64 principal, exactly
AccrueU64(principal, rateBasisPoints, elapsedSeconds) ==
    IF elapsedSeconds <= 0 THEN <<>>
    ELSE BigDiv[BigDiv[BigDiv[
            BigMul[BigMul[principal, BigFromInt[rateBasisPoints]], BigFromInt[elapsedSeconds]],
            10000], 246375], 128]

\* C16 -- (as claimed, for a stake account never claimed on) the rewards an
\* unstake pays at time clock do not exceed
\* accrue(deposit_amount, rate, clock - start_time).
C16_UnstakeRewardsWithinAccrual ==
    lastResult.op = "unstake_rewards" =>
       BigLeq[lastResult.rewards,
              AccrueU64(lastResult.amount, TierBasisPoints(lastResult.lock_period_days), clock)]


\* C17 -- (as claimed) Principal custody: whatever accounts a call names, a
\* stake credits the vault only, an unstake takes the principal from the vault
\* and the rewards from the rewards pool bound at initialize, a claim debits
\* that rewards pool only; the vault balance is total_staked in every
\* reachable state.
C17_PrincipalCustody ==
    staking_authority.exists =>
       /\ token_accounts["vault"].amount = staking_authority.total_staked
       /\ \A owner \in Users, token_account \in OwnerAccountArgs,
             staking_vault \in CustodyAccountArgs, rewards_pool \in CustodyAccountArgs :
             LET reserve == staking_authority.rewards_pool
                 un == unstake(owner, owner, token_account, staking_vault, rewards_pool)
                 cl == claim_rewards(owner, owner, token_account, rewards_pool)
             IN /\ cl.err = "Ok" =>
                      \A k \in TokenAccountKeys \ {reserve, token_account} :
                         cl.token_accounts[k] = token_accounts[k]
                /\ un.err = "Ok" =>
                      \A k \in TokenAccountKeys \ {"vault", reserve, token_account} :
                         un.token_accounts[k] = token_accounts[k]
                /\ \A amount \in Amounts, lock_period_days \in LockDays :
                      LET st == stake(owner, owner, token_account, staking_vault,
                                      amount, lock_period_days)
                      IN st.err = "Ok" =>
                            \A k \in TokenAccountKeys \ {"vault", token_account} :
                               st.token_accounts[k] = token_accounts[k]

\* C18 -- One record per depositor: the stake account at a depositor's
\* address is that depositor's; while it exists, every stake by that depositor
\* fails and changes no account; while it does not (before the first stake,
\* or after an unstake closed it), a stake of a positive amount the depositor
\* holds, into a vault of the program's authority, succeeds and leaves a
\* fresh record with rewards_claimed = 0.
C18_OneRecordPerDepositor ==
    /\ \A u \in Users : stake_accounts[u].exists =>
          stake_accounts[u].owner = u /\ stake_accounts[u].is_active
    /\ \A owner \in Users, token_account \in OwnerAccountArgs,
          staking_vault \in CustodyAccountArgs, amount \in Amounts \cup FullSupplyAmounts,
          lock_period_days \in LockDays :
          LET mine  == stake(owner, owner, token_account, staking_vault,
                             amount, lock_period_days)
              fresh == mine.stake_accounts[owner]
          IN /\ stake_accounts[owner].exists =>
                   \A stake_account \in Users :
                      LET out == stake(owner, stake_account, token_account, staking_vault,
                                       amount, lock_period_days)
                      IN out.err # "Ok" /\ NoChange(out)
             /\ ( /\ staking_authority.exists /\ ~stake_accounts[owner].exists
                  /\ token_account \in OwnTokenAccounts(owner)
                  /\ staking_vault \in CustodyAccounts
                  /\ amount > 0 /\ amount <= token_accounts[token_account].amount
                  /\ staking_authority.total_staked + amount <= MaxU64 )
                => /\ mine.err = "Ok"
                   /\ fresh.exists /\ fresh.owner = owner /\ fresh.is_active
                   /\ fresh.deposit_amount = amount
                   /\ fresh.rewards_claimed = 0
                   /\ fresh.start_time = clock /\ fresh.last_claimed_time = clock

\* a depositor who was paid out by an unstake has staked again, a depositor
\* with a live stake account holds enough for a further stake, and a further
\* stake was refused
C18_Witness ==
    /\ lastResult.op = "stake" /\ lastResult.err = "AccountAlreadyInUse"
    /\ \E u \in ActiveOwners :
          /\ stake_accounts[u].start_time > 0
          /\ stake_accounts[u].rewards_claimed = 0
          /\ Holdings(token_accounts, u) + stake_accounts[u].deposit_amount >
                Holdings(FullSupplyTokenAccounts, u)
    /\ \E v \in ActiveOwners, amount \in FullSupplyAmounts :
          Holdings(token_accounts, v) >= amount

\* C19 -- Owner-only payout: a claim or an unstake succeeds only when the
\* caller is the owner of the stake account it names and the token account it
\* credits is the caller's; it then raises no balance but that token
\* account's, by exactly what the program's token accounts lose; every claim
\* or unstake naming another depositor's stake account, or a token account of
\* another owner, fails and changes no account; an initialize or a stake
\* lowers no token account of the program's authority.
C19_OwnerOnlyPayout ==
    \A owner \in Users, stake_account \in Users, token_account \in OwnerAccountArgs,
       staking_vault \in CustodyAccountArgs, rewards_pool \in CustodyAccountArgs :
       LET un == unstake(owner, stake_account, token_account, staking_vault, rewards_pool)
           cl == claim_rewards(owner, stake_account, token_account, rewards_pool)
           Payout(out) ==
              /\ stake_account = owner
              /\ stake_accounts[stake_account].owner = owner
              /\ token_accounts[token_account].owner = owner
              /\ \A k \in TokenAccountKeys \ {token_account} :
                    out.token_accounts[k].amount <= token_accounts[k].amount
              /\ Holdings(out.token_accounts, owner) - Holdings(token_accounts, owner) =
                    Holdings(token_accounts, PDA) - Holdings(out.token_accounts, PDA)
              /\ Holdings(out.token_accounts, owner) - Holdings(token_accounts, owner) =
                    out.principal + out.rewards
              /\ \A u \in Users \ {owner} :
                    /\ Holdings(out.token_accounts, u) = Holdings(token_accounts, u)
                    /\ out.stake_accounts[u] = stake_accounts[u]
       IN /\ un.err = "Ok" => Payout(un)
          /\ cl.err = "Ok" => Payout(cl)
          /\ (stake_account # owner \/ token_accounts[token_account].owner # owner) =>
                /\ un.err # "Ok" /\ NoChange(un)
                /\ cl.err # "Ok" /\ NoChange(cl)
          /\ \A amount \in Amounts, lock_period_days \in LockDays :
                LET st == stake(owner, stake_account, token_account, staking_vault,
                                amount, lock_period_days)
                IN \A k \in TokenAccountKeys :
                      token_accounts[k].owner = PDA =>
                         st.token_accounts[k].amount >= token_accounts[k].amount
          /\ \A k \in TokenAccountKeys :
                initialize(owner, rewards_pool).token_accounts[k] = token_accounts[k]

\* a claim naming another depositor's live stake account was refused, after
\* rewards had been paid to an owner
C19_Witness ==
    /\ lastResult.op = "claim_rewards" /\ lastResult.err = "ConstraintSeeds"
    /\ Cardinality(ActiveOwners) = Cardinality(Users)
    /\ \E u \in ActiveOwners : stake_accounts[u].rewards_claimed > 0

====
